---- MODULE Spec2Model ----
(***************************************************************************)
(* Model of the LC-3 instruction cycle of src/source/LC3.c (execute_next   *)
(* and setcc).  The simulator struct is the state; one action,             *)
(* execute_next, is one call of the C function: fetch, opcode switch and   *)
(* the device post-processing that follows the switch.                     *)
(*                                                                         *)
(* The memory array is kept sparse: `memory` maps the addresses whose cell *)
(* is nonzero to the cell's value, every other cell of the array holds 0.  *)
(* An index expression of the C code is an int (uint16_t and int16_t are   *)
(* promoted), so it is modelled as an unreduced integer; an index outside  *)
(* the array is undefined behaviour.  A read there yields any 16-bit       *)
(* value.  A store there changes no cell of the array; it lands outside    *)
(* the struct or, when the index is next to the array, on one of its other *)
(* fields (a register, PC, IR, the bytes of CC and isHalted), whichever    *)
(* the layout of the build (the size of a memory entry, the order of the   *)
(* fields) puts at that offset.                                            *)
(***************************************************************************)
EXTENDS Integers, Sequences, FiniteSets, TLC

VARIABLES registers, PC, IR, CC, isHalted, memory,
          console, steps, pre, env, accessed, written, loaded, events, trace

vars == <<registers, PC, IR, CC, isHalted, memory,
          console, steps, pre, env, accessed, written, loaded, events, trace>>

----------------------------------------------------------------------------
(* Program constants *)

KBSR == 65024
KBDR == 65026
DSR == 65028
DDR == 65030
MCR == 65534

W == 2 ^ 16
MemSize == 65536

\* the values of a uint16_t
Word16 == 0..(W - 1)

\* the characters 'N', 'Z' and 'P' that setcc stores in CC
N == 78
Z == 90
P == 80

BR == 0
ADD == 1
LD == 2
ST == 3
JSR == 4
AND == 5
LDR == 6
STR == 7
NOT == 9
LDI == 10
STI == 11
JMP == 12
LEA == 14
TRAP == 15

----------------------------------------------------------------------------
(* Bounds of the exploration *)

MaxSteps == 2

----------------------------------------------------------------------------
(* 16-bit arithmetic as the C code performs it *)

\* conversion of an int to uint16_t
ToUint16(x) == x % W

\* conversion of an int to int16_t (two's complement)
ToInt16(x) == IF x % W >= 32768 THEN (x % W) - W ELSE x % W

\* x >> n on a signed value (arithmetic shift)
Asr(x, n) == IF x >= 0 THEN x \div (2 ^ n) ELSE -(((-x) + (2 ^ n) - 1) \div (2 ^ n))

\* bits [lo+width-1 : lo] of x
Field(x, lo, width) == (x \div (2 ^ lo)) % (2 ^ width)

RECURSIVE BitAnd(_, _, _)
BitAnd(a, b, n) ==
    IF n = 0 THEN 0
    ELSE (IF a % 2 = 1 /\ b % 2 = 1 THEN 1 ELSE 0) + 2 * BitAnd(a \div 2, b \div 2, n - 1)

\* ~x stored into a uint16_t
BitNot(x) == (W - 1) - x

\* the 9-bit field shifted by 6 only, so that its sign bit misses bit 15
PCoffset9_short(ir) == Asr(ToInt16((ir % 512) * 64), 6)

\* ((int16_t) ((IR & 0x1ff) << 7)) >> 7
PCoffset9(ir) == Asr(ToInt16((ir % 512) * 128), 7)

\* ((int16_t) ((IR & 0x3f) << 9)) >> 9
PCoffset6(ir) == Asr(ToInt16((ir % 64) * 512), 9)

\* ((int16_t) ((IR & 0x7ff) << 5)) >> 5
PCoffset11(ir) == Asr(ToInt16((ir % 2048) * 32), 5)

\* the immediate without its sign bits: IR & 0x1f
Imm5_unsigned(ir) == ir % 32

\* (IR & 0x1f) | ((IR & 0x10) ? 0xffe0 : 0)
Imm5(ir) == (ir % 32) + (IF Field(ir, 4, 1) = 1 THEN 65504 ELSE 0)

\* setcc comparing the uint16_t itself with 0, without the int16_t cast
setcc_nocast(last_result) ==
    IF last_result = 0 THEN Z
    ELSE IF last_result < 0 THEN N
    ELSE P

setcc(last_result) ==
    IF last_result = 0 THEN Z
    ELSE IF ToInt16(last_result) < 0 THEN N
    ELSE P

----------------------------------------------------------------------------
(* The memory array *)

InBounds(i) == i \in 0..(MemSize - 1)

\* memory[a].value for an index inside the array
Cell(m, a) == IF a \in DOMAIN m THEN m[a] ELSE 0

\* memory[a].value = v for an index inside the array
Store(m, a, v) ==
    LET D == IF v = 0 THEN DOMAIN m \ {a} ELSE DOMAIN m \cup {a}
    IN  [x \in D |-> IF x = a THEN v ELSE m[x]]

\* memory[i].value read through an int index; g is what an out-of-bounds read yields
MemRead(m, i, g) == IF InBounds(i) THEN Cell(m, i) ELSE g

\* byte k of a uint16_t as it lies in storage, byte 0 first
Byte(v, k) == (v \div (256 ^ k)) % 256

\* where the two bytes of a store outside the memory array may land: outside
\* the struct, on one of its uint16_t fields, or on the one-byte fields CC and
\* isHalted (k is the byte of the stored value that lands on the field named
\* first; for CC_isHalted the other byte lands on isHalted)
Landings ==
    {[field |-> f, k |-> 0] : f \in {"outside", "PC", "IR"}}
    \cup {[field |-> "registers", k |-> k] : k \in 0..7}
    \cup {[field |-> f, k |-> k] : f \in {"CC", "isHalted", "CC_isHalted"}, k \in 0..1}

\* the struct s after two bytes of v were stored at the landing h
StoreOutside(s, v, h) ==
    CASE h.field = "registers"   -> [s EXCEPT !.registers[h.k] = v]
      [] h.field = "PC"          -> [s EXCEPT !.PC = v]
      [] h.field = "IR"          -> [s EXCEPT !.IR = v]
      [] h.field = "CC"          -> [s EXCEPT !.CC = Byte(v, h.k)]
      [] h.field = "isHalted"    -> [s EXCEPT !.isHalted = (Byte(v, h.k) # 0)]
      [] h.field = "CC_isHalted" -> [s EXCEPT !.CC = Byte(v, h.k),
                                              !.isHalted = (Byte(v, 1 - h.k) # 0)]
      [] OTHER                   -> s

\* simulator->memory[i].value = v through an int index; h is where the store
\* lands if the index is outside the array
MemWrite(s, i, v, h) ==
    IF InBounds(i) THEN [s EXCEPT !.memory = Store(s.memory, i, v)]
    ELSE StoreOutside(s, v, h)

----------------------------------------------------------------------------
(* The simulator struct and the instruction cases of execute_next.         *)
(* s is the struct after the fetch; every case yields the struct after the *)
(* case (st), the int indices it used on the memory array (acc), those it  *)
(* stored through (wr), those whose cell it loaded into the destination    *)
(* register (ld) and the calls it made on the output window (ev).          *)
(* c is the value wgetch returns if it is called; g1 and g2 are what the   *)
(* case's first and second out-of-bounds reads yield; h is where its       *)
(* out-of-bounds store lands.                                              *)

Sim == [registers |-> registers, PC |-> PC, IR |-> IR, CC |-> CC,
        isHalted |-> isHalted, memory |-> memory]

opcode(ir) == Field(ir, 12, 4)

\* simulator->IR = simulator->memory[simulator->PC++].value
Fetch(s) == [s EXCEPT !.IR = Cell(s.memory, s.PC), !.PC = ToUint16(s.PC + 1)]

\* *DR = v; setcc(DR, &simulator->CC), DR being register IR[11:9]
WriteDR(s, v) ==
    [s EXCEPT !.registers[Field(s.IR, 9, 3)] = v, !.CC = setcc(v)]

case_TRAP(s) ==
    [st  |-> [s EXCEPT !.registers[7] = s.PC,
                       !.PC = Cell(s.memory, s.IR % 256)],
     acc |-> {s.IR % 256}, wr |-> {}, ld |-> {},
     ev  |-> <<>>]

case_LEA(s) ==
    [st  |-> WriteDR(s, ToUint16(s.PC + PCoffset9(s.IR))),
     acc |-> {}, wr |-> {}, ld |-> {},
     ev  |-> <<>>]

case_LDI(s, c, g1, g2) ==
    LET ea == s.PC + PCoffset9(s.IR)
    IN  IF MemRead(s.memory, ea, g1) = KBDR
        THEN [st  |-> WriteDR(s, ToUint16(c)),
              acc |-> {ea}, wr |-> {}, ld |-> {},
              ev  |-> << [call |-> "wtimeout", arg |-> -1],
                         [call |-> "wgetch", arg |-> c],
                         [call |-> "wtimeout", arg |-> 0] >>]
        ELSE [st  |-> WriteDR(s, Cell(s.memory, MemRead(s.memory, ea, g2))),
              acc |-> {ea, MemRead(s.memory, ea, g2)}, wr |-> {},
              ld  |-> {MemRead(s.memory, ea, g2)},
              ev  |-> <<>>]

case_NOT(s) ==
    [st  |-> WriteDR(s, BitNot(s.registers[Field(s.IR, 6, 3)])),
     acc |-> {}, wr |-> {}, ld |-> {},
     ev  |-> <<>>]

case_LD(s, g1) ==
    LET ea == s.PC + PCoffset9(s.IR)
    IN  [st  |-> WriteDR(s, MemRead(s.memory, ea, g1)),
         acc |-> {ea}, wr |-> {}, ld |-> {ea},
         ev  |-> <<>>]

\* case_ADD_AND testing bit 6 instead of bit 5 for the immediate mode
case_ADD_AND_bit6(s) ==
    LET SR1 == s.registers[Field(s.IR, 6, 3)]
        SR2 == IF Field(s.IR, 6, 1) = 1 THEN Imm5(s.IR)
               ELSE s.registers[Field(s.IR, 0, 3)]
    IN  [st  |-> WriteDR(s, IF opcode(s.IR) = ADD THEN ToUint16(SR1 + SR2)
                            ELSE BitAnd(SR1, SR2, 16)),
         acc |-> {}, wr |-> {}, ld |-> {},
         ev  |-> <<>>]

case_ADD_AND(s) ==
    LET SR1 == s.registers[Field(s.IR, 6, 3)]
        SR2 == IF Field(s.IR, 5, 1) = 1 THEN Imm5(s.IR)
               ELSE s.registers[Field(s.IR, 0, 3)]
    IN  [st  |-> WriteDR(s, IF opcode(s.IR) = ADD THEN ToUint16(SR1 + SR2)
                            ELSE BitAnd(SR1, SR2, 16)),
         acc |-> {}, wr |-> {}, ld |-> {},
         ev  |-> <<>>]

\* BRtaken with the z and p bits tested against each other's condition code
BRtaken_swapped(ir, cc) ==
    \/ Field(ir, 11, 1) = 1 /\ cc = N
    \/ Field(ir, 10, 1) = 1 /\ cc = P
    \/ Field(ir, 9, 1) = 1 /\ cc = Z

\* the condition of the BR case
BRtaken(ir, cc) ==
    \/ Field(ir, 11, 1) = 1 /\ cc = N
    \/ Field(ir, 10, 1) = 1 /\ cc = Z
    \/ Field(ir, 9, 1) = 1 /\ cc = P

case_BR(s) ==
    [st  |-> IF BRtaken(s.IR, s.CC)
             THEN [s EXCEPT !.PC = ToUint16(s.PC + PCoffset9(s.IR))]
             ELSE s,
     acc |-> {}, wr |-> {}, ld |-> {},
     ev  |-> <<>>]

case_LDR(s, g1) ==
    LET ea == s.registers[Field(s.IR, 6, 3)] + PCoffset6(s.IR)
    IN  [st  |-> WriteDR(s, MemRead(s.memory, ea, g1)),
         acc |-> {ea}, wr |-> {}, ld |-> {ea},
         ev  |-> <<>>]

case_ST(s, h) ==
    LET ea == s.PC + PCoffset9(s.IR)
    IN  [st  |-> MemWrite(s, ea, s.registers[Field(s.IR, 9, 3)], h),
         acc |-> {ea}, wr |-> {ea}, ld |-> {},
         ev  |-> <<>>]

case_STR(s, h) ==
    LET ea == s.registers[Field(s.IR, 6, 3)] + PCoffset6(s.IR)
    IN  [st  |-> MemWrite(s, ea, s.registers[Field(s.IR, 9, 3)], h),
         acc |-> {ea}, wr |-> {ea}, ld |-> {},
         ev  |-> <<>>]

\* the halt test of the STI case, made on the memory as the store left it
STIhalts(m, ea, g2) == MemRead(m, ea, g2) = MCR

case_STI(s, g1, g2) ==
    LET ea     == s.PC + PCoffset9(s.IR)
        target == MemRead(s.memory, ea, g1)
        stored == Store(s.memory, target, s.registers[Field(s.IR, 9, 3)])
    IN  [st  |-> [s EXCEPT !.memory = stored,
                           !.isHalted = IF STIhalts(stored, ea, g2) THEN TRUE
                                        ELSE s.isHalted],
         acc |-> {ea, target}, wr |-> {target}, ld |-> {},
         ev  |-> <<>>]

case_JMP(s) ==
    [st  |-> [s EXCEPT !.PC = s.registers[Field(s.IR, 6, 3)]],
     acc |-> {}, wr |-> {}, ld |-> {},
     ev  |-> <<>>]

\* case_JSR reading the base register before it writes R7
case_JSR_reads_first(s) ==
    [st  |-> IF Field(s.IR, 11, 1) = 1
             THEN [s EXCEPT !.registers[7] = s.PC,
                            !.PC = ToUint16(s.PC + PCoffset11(s.IR))]
             ELSE [s EXCEPT !.registers[7] = s.PC,
                            !.PC = s.registers[Field(s.IR, 6, 3)]],
     acc |-> {}, wr |-> {}, ld |-> {},
     ev  |-> <<>>]

case_JSR(s) ==
    LET linked == [s EXCEPT !.registers[7] = s.PC]
    IN  [st  |-> IF Field(s.IR, 11, 1) = 1
                 THEN [linked EXCEPT !.PC = ToUint16(s.PC + PCoffset11(s.IR))]
                 ELSE [linked EXCEPT !.PC = linked.registers[Field(s.IR, 6, 3)]],
         acc |-> {}, wr |-> {}, ld |-> {},
         ev  |-> <<>>]

\* a default case that halts the machine on an unimplemented opcode
case_default_halts(s) ==
    [st |-> [s EXCEPT !.isHalted = TRUE], acc |-> {}, wr |-> {}, ld |-> {}, ev |-> <<>>]

case_default(s) == [st |-> s, acc |-> {}, wr |-> {}, ld |-> {}, ev |-> <<>>]

\* switch (opcode)
Dispatch(s, c, g1, g2, h) ==
    LET op == opcode(s.IR)
    IN  CASE op = TRAP -> case_TRAP(s)
          [] op = LEA  -> case_LEA(s)
          [] op = LDI  -> case_LDI(s, c, g1, g2)
          [] op = NOT  -> case_NOT(s)
          [] op = LD   -> case_LD(s, g1)
          [] op = ADD  -> case_ADD_AND(s)
          [] op = AND  -> case_ADD_AND(s)
          [] op = BR   -> case_BR(s)
          [] op = LDR  -> case_LDR(s, g1)
          [] op = ST   -> case_ST(s, h)
          [] op = STR  -> case_STR(s, h)
          [] op = STI  -> case_STI(s, g1, g2)
          [] op = JMP  -> case_JMP(s)
          [] op = JSR  -> case_JSR(s)
          [] OTHER     -> case_default(s)

\* DeviceEcho testing the low byte of DDR instead of the cell
DeviceEcho_lowbyte(m) ==
    IF Cell(m, DDR) % 256 # 0
    THEN << [call |-> "wechochar", arg |-> Cell(m, DDR) % 256] >>
    ELSE <<>>

\* DeviceEcho passing the whole cell to wechochar
DeviceEcho_unmasked(m) ==
    IF Cell(m, DDR) # 0
    THEN << [call |-> "wechochar", arg |-> Cell(m, DDR)] >>
    ELSE <<>>

\* the wechochar call of the device post-processing
DeviceEcho(m) ==
    IF Cell(m, DDR) # 0
    THEN << [call |-> "wechochar", arg |-> Cell(m, DDR) % 256] >>
    ELSE <<>>

\* DevicePost that echoes DDR without clearing it
DevicePost_noclear(m) == Store(Store(m, KBSR, 32768), DSR, 32768)

\* DevicePost forcing the status registers only when DDR was flushed
DevicePost_conditional(m) ==
    IF Cell(m, DDR) # 0
    THEN Store(Store(Store(m, DDR, 0), KBSR, 32768), DSR, 32768)
    ELSE m

\* the memory after the device post-processing
DevicePost(m) ==
    LET flushed == IF Cell(m, DDR) # 0 THEN Store(m, DDR, 0) ELSE m
    IN  Store(Store(flushed, KBSR, 32768), DSR, 32768)

----------------------------------------------------------------------------
(* What the environment supplies to a call: the value wgetch returns, what *)
(* reads outside the memory array yield and where a store outside it       *)
(* lands.  s is the struct after the fetch.                                *)

\* what wgetch may return: ERR (-1), a character, or a key code; the key codes
\* of the terminal description are not bounded by KEY_MAX, the library keeps
\* them in an unsigned short
Keys == -1..(W - 1)

\* what a read outside the memory array may yield
Garbage == Word16

\* the case of the fetched instruction reads memory through an index outside the array
ReadsOutside(s) ==
    \/ opcode(s.IR) \in {LD, LDI, STI} /\ ~InBounds(s.PC + PCoffset9(s.IR))
    \/ opcode(s.IR) = LDR
          /\ ~InBounds(s.registers[Field(s.IR, 6, 3)] + PCoffset6(s.IR))

\* the case of the fetched instruction stores through an index outside the array
WritesOutside(s) ==
    \/ opcode(s.IR) = ST /\ ~InBounds(s.PC + PCoffset9(s.IR))
    \/ opcode(s.IR) = STR
          /\ ~InBounds(s.registers[Field(s.IR, 6, 3)] + PCoffset6(s.IR))

\* what the first and the second read outside the array yield, <<g1, g2>>.
\* The cases that read twice (LDI, STI) read the same location, which they do
\* not write in between: both reads yield the same value, whichever it is.
GarbageOf(s) ==
    IF ~ReadsOutside(s) THEN {<<0, 0>>}
    ELSE IF opcode(s.IR) = LDI
         THEN {<<g, g>> : g \in Garbage}
    ELSE IF opcode(s.IR) = STI
         THEN {<<g, g>> : g \in Garbage}
    ELSE {<<g, 0>> : g \in Garbage}

\* wgetch is called when the LDI case finds KBDR in its pointer cell
KeysOf(s, g1) ==
    IF opcode(s.IR) = LDI /\ MemRead(s.memory, s.PC + PCoffset9(s.IR), g1) = KBDR
    THEN Keys
    ELSE {0}

\* the uint16_t slots the other fields of the struct take at most:
\* registers[8], PC, IR, and CC and isHalted with a byte of padding each
StructSlots == 12

\* the int index the ST or the STR case stores through
StoreIndex(s) ==
    IF opcode(s.IR) = ST THEN s.PC + PCoffset9(s.IR)
    ELSE s.registers[Field(s.IR, 6, 3)] + PCoffset6(s.IR)

\* a store through the index i outside the array can land at h in some
\* layout of the struct: d is the distance of i from the array in entries.
\* An entry of memory holds the uint16_t value and may hold more, so d entries
\* are d slots or more, and the fields are within StructSlots of the array;
\* which field lies at that distance depends on the size of the entry and on
\* the order of the fields
CanLand(h, i) ==
    LET d == IF i < 0 THEN -i ELSE i - (MemSize - 1)
    IN  \/ h.field = "outside"
        \/ d \in 1..StructSlots

\* where the store of the case may land
LandingsOf(s) ==
    IF WritesOutside(s) THEN {h \in Landings : CanLand(h, StoreIndex(s))}
    ELSE {[field |-> "outside", k |-> 0]}

----------------------------------------------------------------------------
(* Initial states: what the loader leaves in the struct before the first   *)
(* call.  A program of two instructions at PC and PC + 1, a data word d in *)
(* the cells PC + 2 and PC - 1 (the cells that PC-relative offsets 1 and   *)
(* -2 of the first instruction address), a value in DDR, and registers     *)
(* that hold the device addresses.                                         *)

\* an instruction word: opcode, bits [11:9], bits [8:0]
Word(op, hi, lo) == op * 4096 + hi * 512 + lo

InitPCs == {12288, 65532, 65534, 65535, 65028}

InitR0 == {321, 65534}

InitRegisters(r0) ==
    LET t == <<r0, 5, DDR, 65535, 0, KBSR, KBDR, 256>>
    IN  [i \in 0..7 |-> t[i + 1]]

InitCCs == {N, Z, P}

InitDDR == {0, 321}

\* a negative d stands for "the cell holds its own address"
InitData == {-1, KBDR, MCR, DDR}

Words ==
    {Word(BR, n, o) : n \in 0..7, o \in {1, 510}}
    \cup {4162, 4194, Word(ADD, 4, 4 * 64 + 32 + 31), Word(ADD, 2, 2 * 64 + 3)}
    \cup {Word(ADD, 2, 1 * 64 + 2)}
    \cup {20867, Word(AND, 1, 1 * 64 + 32), Word(AND, 0, 2 * 64 + 32 + 31)}
    \cup {Word(NOT, 0, 3 * 64 + 63), Word(NOT, 5, 4 * 64 + 63)}
    \cup {Word(op, 0, o) : op \in {LD, LDI, ST, STI}, o \in {1, 510}}
    \cup {Word(op, 4, 1) : op \in {ST, STI}}
    \cup {Word(op, 0, b * 64 + 63) : op \in {LDR, STR}, b \in {3, 4, 5}}
    \cup {Word(op, 0, 7 * 64 + 32) : op \in {LDR, STR}}
    \cup {Word(op, 0, b * 64) : op \in {LDR, STR}, b \in {2, 5, 6}}
    \cup {Word(STR, 4, 2 * 64), Word(STR, 7, 2 * 64), Word(STR, 0, 5 * 64 + 4)}
    \cup {Word(JMP, 0, 7 * 64), Word(JMP, 0, 3 * 64)}
    \cup {Word(JSR, 7, 511), Word(JSR, 4, 2), Word(JSR, 0, 7 * 64), Word(JSR, 0, 2 * 64)}
    \cup {Word(TRAP, 0, 37), Word(TRAP, 0, 255)}
    \cup {Word(LEA, 0, 511), Word(LEA, 1, 256), Word(LEA, 2, 255)}
    \cup {32768, 53248}

\* the second instruction: a no-op, a store through a pointer, loads of the
\* device cells through a base register, a pointer and a PC offset, a
\* store through a base register and an offset that leave the array, and a
\* store to DDR
Words2 ==
    {0, Word(STI, 0, 508), Word(LDR, 1, 5 * 64), Word(LDR, 1, 2 * 64),
     Word(LDI, 1, 0), Word(LD, 1, 510), Word(STR, 1, 3 * 64 + 11),
     Word(STR, 7, 2 * 64)}

InitMemory(pc, w, w2, d, ddr) ==
    LET hi == ToUint16(pc + 2)
        lo == ToUint16(pc - 1)
        m1 == Store(<<>>, hi, IF d < 0 THEN hi ELSE d)
        m2 == Store(m1, lo, IF d < 0 THEN lo ELSE d)
        m3 == Store(m2, DDR, ddr)
        m4 == Store(m3, ToUint16(pc + 1), w2)
    IN  Store(m4, pc, w)

\* the struct the loader leaves
InitSim(pc, w, w2, d, ddr, r0, cc) ==
    [registers |-> InitRegisters(r0), PC |-> pc, IR |-> 0, CC |-> cc,
     isHalted |-> FALSE, memory |-> InitMemory(pc, w, w2, d, ddr)]

\* the programs explored.  A first instruction for which the environment
\* supplies a 16-bit value or a key is explored from one struct per case
\* (LD, LDI and STI at the top of memory, LDR through R3, the LDI that reads
\* the keyboard at 0x3000); the second
\* instruction leaves the array or reads the keyboard only where listed;
\* CC varies for the branches and R0 for the stores.
Explored(pc, w, w2, d, ddr, r0, cc) ==
    LET f == Fetch(InitSim(pc, w, w2, d, ddr, r0, cc))
    IN  /\ ReadsOutside(f) =>
               /\ \/ pc = 65534 /\ w \in {Word(LD, 0, 1), Word(LDI, 0, 1), Word(STI, 0, 1)}
                  \/ pc = 12288 /\ w = Word(LDR, 0, 3 * 64 + 63)
               /\ d = KBDR
        /\ KeysOf(f, 0) # {0} => (pc = 12288 /\ w = Word(LDI, 0, 1))
        /\ (ReadsOutside(f) \/ KeysOf(f, 0) # {0}) =>
               (w2 = 0 /\ ddr = 0 /\ r0 = 321 /\ cc = Z)
        /\ pc \in {65534, 65535} => w2 = 0
        /\ cc # Z => opcode(w) = BR
        /\ r0 # 321 => opcode(w) \in {ST, STR, STI}
        /\ w2 = Word(LDI, 1, 0) => d # KBDR
        /\ w2 = Word(STR, 1, 3 * 64 + 11) => (opcode(w) = STI /\ ddr = 0)
        /\ w2 = Word(STR, 7, 2 * 64) => (opcode(w) \in {ST, STR, STI} /\ ddr = 0)

Init ==
    \E pc \in InitPCs, w \in Words, w2 \in Words2, d \in InitData,
       ddr \in InitDDR, r0 \in InitR0, cc \in InitCCs :
        /\ Explored(pc, w, w2, d, ddr, r0, cc)
        /\ registers = InitRegisters(r0)
        /\ PC = pc
        /\ IR = 0
        /\ CC = cc
        /\ isHalted = FALSE
        /\ memory = InitMemory(pc, w, w2, d, ddr)
        /\ console = <<>>
        /\ steps = 0
        /\ pre = InitSim(pc, w, w2, d, ddr, r0, cc)
        /\ env = [c |-> 0, g1 |-> 0, g2 |-> 0, h |-> [field |-> "outside", k |-> 0]]
        /\ accessed = {}
        /\ written = {}
        /\ loaded = {}
        /\ events = <<>>
        /\ trace = <<>>

----------------------------------------------------------------------------
(* One call of execute_next.  console is every call made on the output     *)
(* window so far; pre, env, accessed, written, loaded and events record    *)
(* the call just made: the struct it was given, what the environment       *)
(* supplied, the indices it used on the memory array, the index its        *)
(* instruction stored through, the index whose cell it loaded into a       *)
(* register, and the calls it made on the output window.  trace keeps, for *)
(* every call so far, what DDR held when it was made, the index and value  *)
(* of its store and its console calls.                                     *)

\* one call of execute_next on the struct s: the struct it leaves, with the
\* indices and console calls of the instruction case and of the device
\* post-processing
Call(s, c, g1, g2, h) ==
    LET r == Dispatch(Fetch(s), c, g1, g2, h)
    IN  [st  |-> [r.st EXCEPT !.memory = DevicePost(r.st.memory)],
         acc |-> {s.PC} \cup r.acc \cup {DDR, KBSR, DSR},
         wr  |-> r.wr,
         ld  |-> r.ld,
         ev  |-> r.ev \o DeviceEcho(r.st.memory)]

\* the value a store instruction fetched from s stores: register IR[11:9]
StoredValue(s) == Fetch(s).registers[Field(Fetch(s).IR, 9, 3)]

execute_next ==
    /\ steps < MaxSteps
    /\ \E g \in GarbageOf(Fetch(Sim)), h \in LandingsOf(Fetch(Sim)) :
       \E c \in KeysOf(Fetch(Sim), g[1]) :
        LET r == Call(Sim, c, g[1], g[2], h)
        IN  /\ registers' = r.st.registers
            /\ PC' = r.st.PC
            /\ IR' = r.st.IR
            /\ CC' = r.st.CC
            /\ isHalted' = r.st.isHalted
            /\ memory' = r.st.memory
            /\ events' = r.ev
            /\ console' = console \o r.ev
            /\ accessed' = r.acc
            /\ written' = r.wr
            /\ loaded' = r.ld
            /\ trace' = Append(trace, [ddr |-> Cell(memory, DDR), wr |-> r.wr,
                                       val |-> StoredValue(Sim), ev |-> r.ev])
            /\ pre' = Sim
            /\ env' = [c |-> c, g1 |-> g[1], g2 |-> g[2], h |-> h]
            /\ steps' = steps + 1

Next == execute_next

Spec == Init /\ [][Next]_vars

----------------------------------------------------------------------------
(* Properties.  They are stated on the state after a call: pre is the      *)
(* struct the call was given, Instr the instruction it executed.           *)

Stepped == steps > 0

\* the instruction the call fetched and executed
Instr == Cell(pre.memory, pre.PC)

\* the PC after the fetch
incPC == (pre.PC + 1) % W

\* the n-bit field f read as a two's complement number
SEXT(f, n) == IF f >= 2 ^ (n - 1) THEN f - 2 ^ n ELSE f

\* PC + SEXT(offset9) in the 16-bit address space
PtrAddr == (incPC + SEXT(Instr % 512, 9)) % W

\* base + SEXT(offset6) in the 16-bit address space
BaseAddr == (pre.registers[Field(Instr, 6, 3)] + SEXT(Instr % 64, 6)) % W

Echoes == SelectSeq(events, LAMBDA e : e.call = "wechochar")

KeyboardCalls == SelectSeq(events, LAMBDA e : e.call # "wechochar")

\* C1: LDR loads from and STR stores to address (B + SEXT6(f)) mod 2^16, the
\* 6-bit offset field being sign-extended (field 0x3F addresses B - 1).
C1_Offset6SignExtended ==
    Stepped =>
        /\ opcode(Instr) = LDR =>
               /\ BaseAddr \in accessed
               /\ registers[Field(Instr, 9, 3)] = Cell(pre.memory, BaseAddr)
        /\ opcode(Instr) = STR => written = {BaseAddr}

\* C2: every index a call uses on the memory array lies in 0..65535.
C2_IndicesInRange == \A i \in accessed : i \in 0..65535

\* C3: an STI whose target address, the pointer read before the store, is MCR
\* sets isHalted and leaves the source register's value in memory[MCR].
C3_StiToMcrHalts ==
    (Stepped /\ opcode(Instr) = STI /\ Cell(pre.memory, PtrAddr) = MCR) =>
        /\ isHalted
        /\ Cell(memory, MCR) = pre.registers[Field(Instr, 9, 3)]

\* C4: isHalted goes from false to true only in a call that executes STI with
\* the target address, the pointer read before the store, equal to MCR.
C4_HaltOnlyByStiToMcr ==
    (Stepped /\ ~pre.isHalted /\ isHalted) =>
        /\ opcode(Instr) = STI
        /\ Cell(pre.memory, PtrAddr) = MCR

\* C5: isHalted is monotonic: a call made with isHalted true leaves it true.
C5_HaltedMonotonic == (Stepped /\ pre.isHalted) => isHalted

\* C6: after every call memory[KBSR] = 0x8000, memory[DSR] = 0x8000 and
\* memory[DDR] = 0, whatever was executed and whatever the cells held.
C6_DeviceCellsAfterStep ==
    Stepped =>
        /\ Cell(memory, KBSR) = 32768
        /\ Cell(memory, DSR) = 32768
        /\ Cell(memory, DDR) = 0

\* the call executed a store into KBSR or DSR of a value other than 0x8000
C6_Witness ==
    /\ Stepped /\ opcode(Instr) = STR
    /\ written \in {{KBSR}, {DSR}}
    /\ pre.registers[Field(Instr, 9, 3)] # 32768
    /\ Cell(memory, KBSR) = 32768 /\ Cell(memory, DSR) = 32768

\* C7 as claimed: a call made with a nonzero v in memory[DDR] emits exactly one
\* character, v & 0xFF, and leaves memory[DDR] = 0, whatever it executes.
C7_FlushesValueHeldAtCall ==
    (Stepped /\ Cell(pre.memory, DDR) # 0) =>
        /\ Echoes = << [call |-> "wechochar", arg |-> Cell(pre.memory, DDR) % 256] >>
        /\ Cell(memory, DDR) = 0

\* C7 amended: a call made with a nonzero v in memory[DDR] whose instruction does
\* not itself store to DDR emits exactly one character, v & 0xFF, and leaves
\* memory[DDR] = 0.
C7_FlushesUnlessOverwritten ==
    (Stepped /\ Cell(pre.memory, DDR) # 0 /\ DDR \notin written) =>
        /\ Echoes = << [call |-> "wechochar", arg |-> Cell(pre.memory, DDR) % 256] >>
        /\ Cell(memory, DDR) = 0

\* a call given DDR = 0x0141 executed a store to another cell and emitted 0x41
C7_Witness ==
    /\ Stepped /\ Cell(pre.memory, DDR) = 321
    /\ written # {} /\ DDR \notin written
    /\ Echoes = << [call |-> "wechochar", arg |-> 65] >>
    /\ Cell(memory, DDR) = 0

\* C8: an LDI whose pointer cell memory[PC + SEXT(offset9)] holds KBDR switches
\* the console to blocking, reads one character c and switches back, in this
\* order, and ends with DR = c, CC set from c and memory[KBDR] as it was; any
\* other call makes no console read and no mode switch.
C8_KbdrInterception ==
    Stepped =>
        IF opcode(Instr) = LDI /\ Cell(pre.memory, PtrAddr) = KBDR
        THEN LET c == env.c IN
                /\ c \in Keys
                /\ KeyboardCalls = << [call |-> "wtimeout", arg |-> -1],
                                      [call |-> "wgetch", arg |-> c],
                                      [call |-> "wtimeout", arg |-> 0] >>
                /\ registers[Field(Instr, 9, 3)] = ToUint16(c)
                /\ CC = setcc(ToUint16(c))
                /\ Cell(memory, KBDR) = Cell(pre.memory, KBDR)
        ELSE KeyboardCalls = <<>>

\* C9: a BR sets PC to (incremented PC + SEXT(offset9)) mod 2^16 iff
\* (n and CC=N) or (z and CC=Z) or (p and CC=P), else leaves the incremented PC.
C9_BrTruthTable ==
    (Stepped /\ opcode(Instr) = BR) =>
        PC = IF \/ Field(Instr, 11, 1) = 1 /\ pre.CC = N
                \/ Field(Instr, 10, 1) = 1 /\ pre.CC = Z
                \/ Field(Instr, 9, 1) = 1 /\ pre.CC = P
             THEN (incPC + SEXT(Instr % 512, 9)) % W
             ELSE incPC

\* a BR with only the z bit set was taken backwards
C9_Witness ==
    /\ Stepped /\ opcode(Instr) = BR
    /\ Field(Instr, 9, 3) = 2 /\ pre.CC = Z
    /\ PC = (incPC + 65534) % W

\* C10: ST, STR, STI, BR, JMP, JSR, TRAP and the unimplemented opcodes leave CC
\* as it was; a call that changes CC executed ADD, AND, NOT, LD, LDI, LDR or LEA.
C10_CCFrame ==
    Stepped =>
        /\ opcode(Instr) \in {ST, STR, STI, BR, JMP, JSR, TRAP, 8, 13} => CC = pre.CC
        /\ CC # pre.CC => opcode(Instr) \in {ADD, AND, NOT, LD, LDI, LDR, LEA}

\* the sign class of a 16-bit value
SignClass(v) == IF v = 0 THEN Z ELSE IF v >= 32768 THEN N ELSE P

\* the destination register IR[11:9] after the call
DRvalue == registers[Field(Instr, 9, 3)]

\* C11: after ADD, AND, NOT, LD, LDI, LDR or LEA, CC is one of N, Z, P and is the
\* sign class of the value now in the destination register: Z if it is 0, N if
\* its bit 15 is set, P otherwise.
C11_CCFromDestination ==
    (Stepped /\ opcode(Instr) \in {ADD, AND, NOT, LD, LDI, LDR, LEA}) =>
        /\ CC \in {N, Z, P}
        /\ CC = SignClass(DRvalue)

\* a CC-setting instruction wrote a value with bit 15 set and turned CC to N
C11_Witness ==
    /\ Stepped /\ opcode(Instr) \in {ADD, AND, NOT, LD, LDI, LDR, LEA}
    /\ DRvalue >= 32768 /\ pre.CC # N /\ CC = N

\* C12 as claimed: the word 0x1042 executed with R1 = 5 ends with R0 = 7 and
\* CC = Positive, whatever the other registers hold.
C12_Word1042AddsTwo ==
    (Stepped /\ Instr = 4162 /\ pre.registers[1] = 5) =>
        (registers[0] = 7 /\ CC = P)

\* C12 amended: 0x1042 has bit 5 clear and is ADD R0,R1,R2: with R1 = 5 it ends
\* with R0 = (5 + R2) mod 2^16 and CC the sign class of that; the immediate
\* form ADD R0,R1,#2 is the word 0x1062, which with R1 = 5 ends with R0 = 7 and
\* CC = Positive whatever the other registers hold.
C12_Word1042AddsR2 ==
    Stepped =>
        /\ (Instr = 4162 /\ pre.registers[1] = 5) =>
               /\ registers[0] = (5 + pre.registers[2]) % W
               /\ CC = SignClass((5 + pre.registers[2]) % W)
        /\ (Instr = 4194 /\ pre.registers[1] = 5) =>
               (registers[0] = 7 /\ CC = P)

\* the word 0x1062 was executed with R1 = 5 and left 7 in R0
C12_Witness ==
    /\ Stepped /\ Instr = 4194 /\ pre.registers[1] = 5
    /\ pre.registers[0] # 7 /\ registers[0] = 7 /\ CC = P

\* the bitwise AND of two 16-bit values, bit by bit
RECURSIVE AndOfBits(_, _, _)
AndOfBits(a, b, i) ==
    IF i > 15 THEN 0
    ELSE (IF Field(a, i, 1) + Field(b, i, 1) = 2 THEN 2 ^ i ELSE 0)
         + AndOfBits(a, b, i + 1)

\* the second operand of ADD and AND as the claim reads it
Operand2 ==
    IF Field(Instr, 5, 1) = 1 THEN SEXT(Instr % 32, 5) % W
    ELSE pre.registers[Instr % 8]

\* C13: ADD and AND take SR1 = IR[8:6] and, with bit 5 set, IR[4:0] sign-extended
\* from 5 bits, else register IR[2:0]; DR = (SR1 + operand2) mod 2^16 for ADD,
\* SR1 & operand2 for AND, also when DR is SR1 or SR2.
C13_AddAndSemantics ==
    Stepped =>
        /\ opcode(Instr) = ADD =>
               DRvalue = (pre.registers[Field(Instr, 6, 3)] + Operand2) % W
        /\ opcode(Instr) = AND =>
               DRvalue = AndOfBits(pre.registers[Field(Instr, 6, 3)], Operand2, 0)

\* an ADD with a negative immediate wrote into its own source register
C13_Witness ==
    /\ Stepped /\ opcode(Instr) = ADD
    /\ Field(Instr, 5, 1) = 1 /\ Field(Instr, 4, 1) = 1
    /\ Field(Instr, 9, 3) = Field(Instr, 6, 3)
    /\ DRvalue = (pre.registers[Field(Instr, 6, 3)] + 65535) % W

\* the memory cells other than DDR, KBSR and DSR are as they were before the call
MemoryKeptExcept(cells) ==
    \A a \in (DOMAIN memory \cup DOMAIN pre.memory) \ cells :
        Cell(memory, a) = Cell(pre.memory, a)

\* the device post-processing ran on a DDR that held v
DeviceFlushed(v) ==
    /\ Cell(memory, DDR) = 0
    /\ Cell(memory, KBSR) = 32768
    /\ Cell(memory, DSR) = 32768
    /\ Echoes = IF v # 0 THEN << [call |-> "wechochar", arg |-> v % 256] >> ELSE <<>>

\* C14: an unimplemented opcode is a no-op apart from the fetch and the device
\* post-processing: IR is the fetched word, PC is the old PC + 1, registers, CC
\* and isHalted are unchanged, only DDR, KBSR and DSR may change in memory, and
\* the device post-processing runs.
C14_UnimplementedIsNoop ==
    (Stepped /\ opcode(Instr) \in {8, 13}) =>
        /\ IR = Cell(pre.memory, pre.PC)
        /\ PC = incPC
        /\ registers = pre.registers
        /\ CC = pre.CC
        /\ isHalted = pre.isHalted
        /\ MemoryKeptExcept({DDR, KBSR, DSR})
        /\ KeyboardCalls = <<>>
        /\ DeviceFlushed(Cell(pre.memory, DDR))

\* an unimplemented opcode was executed with a nonzero DDR, which was flushed
C14_Witness ==
    /\ Stepped /\ opcode(Instr) \in {8, 13}
    /\ Cell(pre.memory, DDR) # 0 /\ Len(Echoes) = 1
    /\ PC = incPC /\ registers = pre.registers

\* C15: JSR writes the incremented PC into R7 and then computes PC: with bit 11
\* set PC = (incremented PC + SEXT(IR[10:0])) mod 2^16, with bit 11 clear PC =
\* register IR[8:6] read after R7 was written, so base R7 yields the return
\* address.
C15_JsrLinksFirst ==
    (Stepped /\ opcode(Instr) = JSR) =>
        /\ registers[7] = incPC
        /\ PC = IF Field(Instr, 11, 1) = 1 THEN (incPC + SEXT(Instr % 2048, 11)) % W
               ELSE IF Field(Instr, 6, 3) = 7 THEN incPC
               ELSE pre.registers[Field(Instr, 6, 3)]

\* a JSR through R7 ended at the return address, not at the old R7
C15_Witness ==
    /\ Stepped /\ opcode(Instr) = JSR
    /\ Field(Instr, 11, 1) = 0 /\ Field(Instr, 6, 3) = 7
    /\ PC = incPC /\ PC # pre.registers[7]

\* C16: the 9-bit field is sign-extended (0x1FF is -1, 0x100 is -256, 0x0FF is
\* +255); LEA sets DR = (incremented PC + SEXT(IR[8:0])) mod 2^16 and uses no
\* memory cell other than the fetch and the device cells.
C16_LeaSignExtends ==
    /\ PCoffset9(511) = -1 /\ PCoffset9(256) = -256 /\ PCoffset9(255) = 255
    /\ (Stepped /\ opcode(Instr) = LEA) =>
           /\ DRvalue = (incPC + SEXT(Instr % 512, 9)) % W
           /\ accessed = {pre.PC, DDR, KBSR, DSR}
           /\ written = {}
           /\ loaded = {}
           /\ MemoryKeptExcept({DDR, KBSR, DSR})

\* a LEA with field 0x1FF loaded the address before the incremented PC
C16_Witness ==
    /\ Stepped /\ opcode(Instr) = LEA /\ Instr % 512 = 511
    /\ DRvalue = (incPC + 65535) % W

\* the struct the call was given, with isHalted inverted
preFlipped == [pre EXCEPT !.isHalted = ~pre.isHalted]

\* the call just made, repeated on the struct with isHalted inverted and the
\* same values from the environment
Flipped == Call(preFlipped, env.c, env.g1, env.g2, env.h)

\* C17: the call never consults isHalted: from two structs that differ only in
\* isHalted it leaves the same registers, memory, PC, IR and CC and makes the
\* same console calls; a call given isHalted = true still fetches (IR =
\* memory[PC], PC + 1), executes the instruction, runs the device
\* post-processing and leaves isHalted true.
C17_HaltedNotConsulted ==
    Stepped =>
        /\ registers = Flipped.st.registers
        /\ memory = Flipped.st.memory
        /\ PC = Flipped.st.PC
        /\ IR = Flipped.st.IR
        /\ CC = Flipped.st.CC
        /\ events = Flipped.ev
        /\ pre.isHalted =>
               /\ accessed = Flipped.acc
               /\ pre.PC \in accessed
               /\ Cell(memory, DDR) = 0
               /\ Cell(memory, KBSR) = 32768
               /\ Cell(memory, DSR) = 32768
               /\ isHalted

\* C18: a load executed by the second or a later call obtains 0x8000 from KBSR
\* and from DSR and 0 from DDR, whatever earlier calls stored there.
C18_DeviceCellsReadBack ==
    (steps >= 2) =>
        /\ (KBSR \in loaded \/ DSR \in loaded) => DRvalue = 32768
        /\ DDR \in loaded => DRvalue = 0

\* a call loaded 0 from DDR after an earlier call had stored a nonzero value there
C18_Witness ==
    /\ steps >= 2 /\ DDR \in loaded /\ DRvalue = 0
    /\ \E i \in 1..(Len(trace) - 1) : DDR \in trace[i].wr /\ trace[i].val # 0

\* the wechochar calls among the console calls cs
EchoesOf(cs) == SelectSeq(cs, LAMBDA e : e.call = "wechochar")

\* what the i-th call has to emit: the low byte of a nonzero value it stored to DDR
Emission(i) ==
    IF DDR \in trace[i].wr /\ trace[i].val # 0
    THEN << [call |-> "wechochar", arg |-> trace[i].val % 256] >>
    ELSE <<>>

RECURSIVE Emissions(_)
Emissions(n) == IF n = 0 THEN <<>> ELSE Emissions(n - 1) \o Emission(n)

\* C19: from a state with memory[DDR] = 0, every call emits at most one
\* character, and the characters emitted are, in order, the low bytes of the
\* nonzero values stored to DDR by ST, STR or STI, each emitted by the call
\* that stored it; a call that stores no nonzero value to DDR emits nothing.
C19_OutputIsStoresToDDR ==
    (Stepped /\ trace[1].ddr = 0) =>
        /\ \A i \in 1..Len(trace) :
               /\ Len(EchoesOf(trace[i].ev)) <= 1
               /\ EchoesOf(trace[i].ev) = Emission(i)
        /\ EchoesOf(console) = Emissions(Len(trace))

\* 0x0100 was stored to DDR and the call emitted the character 0
C19_Witness ==
    /\ Stepped /\ trace[1].ddr = 0
    /\ DDR \in written /\ trace[Len(trace)].val = 256
    /\ Echoes = << [call |-> "wechochar", arg |-> 0] >>

\* the registers the call changed
ChangedRegisters == {i \in 0..7 : registers[i] # pre.registers[i]}

\* C20: a call changes at most one general register (the DR of ADD, AND, NOT,
\* LD, LDI, LDR, LEA; R7 for JSR and TRAP; none otherwise) and no memory cell
\* other than the single store target of ST, STR or STI and DDR, KBSR, DSR.
C20_Frame ==
    Stepped =>
        /\ ChangedRegisters \subseteq
               (IF opcode(Instr) \in {ADD, AND, NOT, LD, LDI, LDR, LEA}
                THEN {Field(Instr, 9, 3)}
                ELSE IF opcode(Instr) \in {JSR, TRAP} THEN {7} ELSE {})
        /\ Cardinality(written) <= 1
        /\ written # {} => opcode(Instr) \in {ST, STR, STI}
        /\ MemoryKeptExcept({DDR, KBSR, DSR} \cup written)

====
